---- MODULE Spec2Model ----
(***************************************************************************)
(* A model of main.py: inject_single and inject_multiple driving one       *)
(* PostgreSQL session (psycopg2, autocommit off) and the per-chunk         *)
(* intermediate file tmp_chunk.csv.                                        *)
(*                                                                         *)
(* Strings that the code inspects character by character (header names,    *)
(* file names, table names) are sequences of one-character strings; a      *)
(* character outside ASCII is written by its code point ("U+AC00").        *)
(* Cell values are plain strings.                                          *)
(***************************************************************************)
EXTENDS Integers, Sequences, FiniteSets, TLC

(***************************************************************************)
(* Bounds of the model.                                                    *)
(***************************************************************************)
\* top-level calls (inject_single or inject_multiple) made by the caller
MaxCalls == 2
\* largest chunk size tried; main.py fixes chunk_size (line 92), the model
\* draws it from 1..MaxChunkSize so that files span several chunks
MaxChunkSize == 3
\* store operations that the store fails for a reason outside the input
\* (permissions, transport, encoding of the database)
MaxFaults == 1

(***************************************************************************)
(* Characters.                                                             *)
(***************************************************************************)
Upper == <<"A","B","C","D","E","F","G","H","I","J","K","L","M",
           "N","O","P","Q","R","S","T","U","V","W","X","Y","Z">>
Lower == <<"a","b","c","d","e","f","g","h","i","j","k","l","m",
           "n","o","p","q","r","s","t","u","v","w","x","y","z">>
Digits == {"0","1","2","3","4","5","6","7","8","9"}
Range(s) == {s[i] : i \in DOMAIN s}
\* U+AC00 and U+D7A3 are the ends of the Hangul syllable block, U+00E9 is a
\* Latin letter outside ASCII
Hangul == {"U+AC00", "U+D7A3"}
OtherLetters == {"U+00E9"}
\* a lone surrogate, as os.listdir gives for a file name that is not UTF-8
Surrogates == {"U+DCFF"}

\* str.lower()
UpperChars == Range(Upper)
LowerOf == [c \in UpperChars |-> Lower[CHOOSE i \in DOMAIN Upper : Upper[i] = c]]
ToLower(c) == IF c \in UpperChars THEN LowerOf[c] ELSE c
LowerStr(s) == [i \in DOMAIN s |-> ToLower(s[i])]

\* [a-zA-Z0-9_] of line 198
AsciiWordChars == Range(Upper) \cup Range(Lower) \cup Digits \cup {"_"}
IsAsciiWord(c) == c \in AsciiWordChars
\* \w of line 73 on a str pattern: Unicode letters, digits and underscore
WordChars == AsciiWordChars \cup Hangul \cup OtherLetters
IsWord(c) == c \in WordChars

\* line 73 without its .lower()
CleanHeaderNoLower(header) ==
    [i \in DOMAIN header |->
        IF IsWord(header[i]) \/ header[i] \in Hangul THEN header[i] ELSE "_"]
\* line 73: re.sub(r'[^\w<Hangul>]', '_', header).lower()
CleanHeader(header) ==
    [i \in DOMAIN header |->
        ToLower(IF IsWord(header[i]) \/ header[i] \in Hangul
                THEN header[i] ELSE "_")]

\* line 198: re.sub(r'[^a-zA-Z0-9_]', '_', table_name)
CleanTableName(name) ==
    [i \in DOMAIN name |-> IF IsAsciiWord(name[i]) THEN name[i] ELSE "_"]

\* os.path.splitext(name)[0]: cut at the last dot, unless only dots precede it
LastDot(name) ==
    IF \E i \in DOMAIN name : name[i] = "."
    THEN CHOOSE i \in DOMAIN name :
            name[i] = "." /\ \A j \in DOMAIN name : name[j] = "." => j <= i
    ELSE 0
SplitextRoot(name) ==
    LET d == LastDot(name) IN
    IF d = 0 \/ \A j \in 1..d : name[j] = "."
    THEN name
    ELSE SubSeq(name, 1, d - 1)
SplitextExt(name) ==
    LET d == LastDot(name) IN
    IF d = 0 \/ \A j \in 1..d : name[j] = "."
    THEN <<>>
    ELSE SubSeq(name, d, Len(name))

\* line 164: f.lower().endswith('.csv')
EndsWithCsv(name) ==
    LET n == Len(name) IN
    /\ n >= 4
    /\ SubSeq(LowerStr(name), n - 3, n) = <<".", "c", "s", "v">>

(***************************************************************************)
(* The caller's inputs: files, directories, schema and table names.        *)
(***************************************************************************)
\* A file is its name, whether the path exists, its header row, its data
\* rows (one sequence of cell values per row) and the number of blank lines
\* among its lines.  A file of zero bytes has no header at all.
File(name, exists, header, rows, blank) ==
    [name |-> name, exists |-> exists, header |-> header, rows |-> rows,
     blank |-> blank]

FileIds == {"people", "shadow", "zero", "single", "ragged", "dup", "empty",
            "2024", "missing", "surrogate", "notes"}

Files ==
    [id \in FileIds |->
       CASE id = "people" ->
              File(<<"P","e",".","c","s","v">>, TRUE,
                   << <<"F"," ","N">>, <<"A","g","e">> >>,
                   << <<"Ann","30">>, <<"Bo","41">>, <<"Cy","NA">> >>, 0)
         [] id = "shadow" ->
              File(<<"p","E",".","c","s","v">>, TRUE,
                   << <<"v">> >>, << <<"7">> >>, 0)
         [] id = "zero" ->
              File(<<"z",".","C","S","V">>, TRUE, << <<"i","d">> >>, << >>, 0)
         [] id = "single" ->
              File(<<"U+00E9","-","1",".","c","s","v">>, TRUE,
                   << <<"U+AC00","#">> >>, << <<"x">>, <<"NULL">> >>, 1)
         [] id = "ragged" ->
              File(<<"r",".","c","s","v">>, TRUE,
                   << <<"a">>, <<"b">> >>,
                   << <<"1","2">>, <<"3">>, <<"4","5","6">> >>, 0)
         [] id = "dup" ->
              File(<<"d",".","c","s","v">>, TRUE,
                   << <<"K">>, <<"k">> >>, << <<"1","2">> >>, 0)
         [] id = "empty" ->
              File(<<"e",".","c","s","v">>, TRUE, << >>, << >>, 0)
         [] id = "2024" ->
              File(<<"2","0","2","4",".","c","s","v">>, TRUE,
                   << <<"v">> >>, << <<"7">> >>, 0)
         [] id = "missing" ->
              File(<<"m",".","c","s","v">>, FALSE, << >>, << >>, 0)
         [] id = "surrogate" ->
              File(<<"U+DCFF",".","c","s","v">>, TRUE,
                   << <<"v">> >>, << <<"7">> >>, 0)
         [] id = "notes" ->
              File(<<"n",".","t","x","t">>, TRUE, << <<"v">> >>, << >>, 0)]

\* files that a caller hands to inject_single directly
SingleInputs == {"people", "single", "ragged", "dup", "empty", "missing", "surrogate"}

\* A directory: whether the path exists and is a directory, and os.listdir's
\* entries in the order it returns them.
DirIds == {"mixed", "poisoned", "late", "clash", "texts", "nodir"}
Dirs ==
    [d \in DirIds |->
       CASE d = "mixed" ->
              [isdir |-> TRUE,
               entries |-> <<"people", "empty", "notes", "zero", "single">>]
         [] d = "poisoned" ->
              [isdir |-> TRUE, entries |-> <<"zero", "2024", "people">>]
         [] d = "late" ->
              [isdir |-> TRUE, entries |-> <<"single", "surrogate", "zero">>]
         [] d = "clash" ->
              [isdir |-> TRUE, entries |-> <<"ragged", "people", "shadow">>]
         [] d = "texts" ->
              [isdir |-> TRUE, entries |-> <<"notes">>]
         [] d = "nodir" ->
              [isdir |-> FALSE, entries |-> << >>]]
\* the calls of inject_multiple that a caller makes: directory and use_prefix
BatchInputs == {<<"mixed", FALSE>>, <<"poisoned", FALSE>>, <<"poisoned", TRUE>>,
                <<"late", TRUE>>, <<"clash", FALSE>>, <<"texts", FALSE>>,
                <<"nodir", FALSE>>}

\* the schema named in the calls: it does not exist before the first of them
SchemaNames == {"raw"}
\* table names a caller hands to inject_single directly
TableNames == { <<"T">> }
\* line 157: table_prefix='data_'
table_prefix == <<"d","a","t","a","_">>

(***************************************************************************)
(* pandas: read_csv and to_csv.                                            *)
(***************************************************************************)
\* the strings read_csv turns into NaN, also under dtype=str
NaValues == {"", "#N/A", "#N/A N/A", "#NA", "-1.#IND", "-1.#QNAN", "-NaN",
             "-nan", "1.#IND", "1.#QNAN", "<NA>", "N/A", "NA", "NULL", "NaN",
             "None", "n/a", "nan", "null"}
\* markers that no cell value of the inputs equals
NaN == "float(nan)"
NULL == "SQL NULL"

\* line 67-68: read_csv(nrows=0).columns: a repeated name gets ".<k>"
DigitOf(k) == CHOOSE c \in Digits : c = ToString(k)
Columns(header) ==
    [i \in DOMAIN header |->
        LET k == Cardinality({j \in 1..(i - 1) : header[j] = header[i]}) IN
        IF k = 0 THEN header[i] ELSE header[i] \o <<".", DigitOf(k)>>]

\* lines 71-76
CleanHeaders(header) ==
    LET cols == Columns(header) IN [i \in DOMAIN cols |-> CleanHeader(cols[i])]

\* one parsed row of a chunk: a short row is padded with NaN, an NA string
\* becomes NaN, every other cell stays the string it is (dtype=str)
ParseRow(row, ncols) ==
    [j \in 1..ncols |->
        IF j > Len(row) THEN NaN
        ELSE IF row[j] \in NaValues THEN NaN ELSE row[j]]

\* a row with more cells than the header makes the tokenizer raise
\* ParserError when the chunk holding it is read
TooLong(row, ncols) == Len(row) > ncols

\* line 93: the rows of the chunk that starts after `done` rows
ChunkEnd(nrows, done, size) == IF done + size < nrows THEN done + size ELSE nrows
ChunkRows(rows, done, size) == SubSeq(rows, done + 1, ChunkEnd(Len(rows), done, size))

\* line 93: whether the reader has another chunk: a file without data rows
\* still yields one (empty) first chunk
HasChunk(nrows, done, nchunks) == done < nrows \/ nchunks = 0

\* line 101: to_csv(index=False) writes NaN as nothing, and quotes it when it
\* is the only cell of its line
QuotedEmpty == "\"\""
CsvField(cell, ncols) ==
    IF cell = NaN THEN (IF ncols = 1 THEN QuotedEmpty ELSE "") ELSE cell
CsvLine(row) == [j \in DOMAIN row |-> CsvField(row[j], Len(row))]

\* line 87: sum(1 for _ in open(csv_path)): every line of the file, the
\* blank ones too, which read_csv skips (skip_blank_lines)
LineCount(file) ==
    (IF Len(file.header) = 0 THEN 0 ELSE 1) + Len(file.rows) + file.blank

(***************************************************************************)
(* The store: PostgreSQL as one session sees it.                           *)
(***************************************************************************)
NoTemp == [cols |-> << >>, rows |-> << >>, exists |-> FALSE]
\* a database state: schemas, relations by <<schema, name>>, and the
\* session's temporary relation csv_temp
EmptyDb == [schemas |-> {"public"}, tables |-> << >>, temp |-> NoTemp]

\* an unquoted identifier is folded to lower case
Fold(name) == LowerStr(name)
RelKey(schema, table) == <<schema, Fold(table)>>
\* schema.table as written unquoted in lines 116-123 parses only when the
\* name is an identifier: not empty, not starting with a digit
ValidIdent(name) ==
    /\ Len(name) > 0
    /\ name[1] \notin Digits
    /\ \A i \in DOMAIN name : IsWord(name[i]) \/ name[i] = "$"

\* COPY ... WITH CSV (line 106): an unquoted empty field is NULL, a quoted
\* empty field is the empty string
CopyField(f) == IF f = "" THEN NULL ELSE IF f = QuotedEmpty THEN "" ELSE f
CopyLine(line) == [j \in DOMAIN line |-> CopyField(line[j])]
CopyRows(lines) == [i \in DOMAIN lines |-> CopyLine(lines[i])]

\* row_to_json (line 129): one object per row, a key per column in order
JsonRow(cols, row) == [j \in DOMAIN cols |-> <<cols[j], row[j]>>]
RowToJson(temp) == [i \in DOMAIN temp.rows |-> JsonRow(temp.cols, temp.rows[i])]

\* a function without the key k
Without(f, k) == [x \in DOMAIN f \ {k} |-> f[x]]
NoDuplicates(s) == \A i, j \in DOMAIN s : s[i] = s[j] => i = j

(***************************************************************************)
(* State.                                                                  *)
(***************************************************************************)
VARIABLES
    caller_conn,  \* whether the caller passes its own connection (conn=...)
    chunk_size,   \* line 92
    calls,        \* top-level calls made so far
    faults,       \* store operations failed so far by the store itself
    store,        \* the session: open, txn, committed and working database
    tmp_file,     \* whether tmp_chunk.csv exists
    ops,          \* store operations (connect, execute, copy, commit, close)
                  \* performed since the top-level call began
    single,       \* the frame of inject_single
    multi,        \* the frame of inject_multiple
    pre,          \* history: what inject_single found when it was entered
    mid,          \* history: the committed database after line 64
    last_ok,      \* history: relation -> file of its last successful run
    invoked       \* history: the calls of inject_single that the running
                  \* inject_multiple has made, in order, with their results

vars == <<caller_conn, chunk_size, calls, faults, store, tmp_file, ops,
          single, multi, pre, mid, last_ok, invoked>>

\* psycopg2 transaction status of the session
TxnStates == {"idle", "intrans", "aborted"}

IdleSingle ==
    [pc |-> "idle", csv_path |-> "missing", schema_name |-> "public",
     table_name |-> << >>, conn_arg |-> FALSE, conn_provided |-> "unbound",
     clean_headers |-> << >>, total_rows |-> 0, done |-> 0, chunks |-> 0,
     pbar |-> 0, result |-> "none"]
IdleMulti ==
    [pc |-> "idle", directory |-> "nodir", schema_name |-> "public",
     use_prefix |-> FALSE, conn_provided |-> "unbound", csv_files |-> << >>,
     idx |-> 1, success_count |-> 0, attempts |-> 0, result |-> "none"]

\* main() opens the session's connection before the first call (line 271)
Init ==
    /\ caller_conn \in BOOLEAN
    /\ chunk_size \in 1..MaxChunkSize
    /\ calls = 0
    /\ faults = 0
    /\ store = [open |-> caller_conn, txn |-> "idle",
                committed |-> EmptyDb, working |-> EmptyDb]
    /\ tmp_file = FALSE
    /\ ops = 0
    /\ single = IdleSingle
    /\ multi = IdleMulti
    /\ pre = [store |-> store, ops |-> 0, tmp_file |-> FALSE]
    /\ mid = EmptyDb
    /\ last_ok = << >>
    /\ invoked = << >>

(***************************************************************************)
(* The session's operations, as psycopg2 and the server carry them out.    *)
(***************************************************************************)
\* The operations that the store may fail on its own, one for each kind of
\* the error taxonomy: connecting, DDL on the schema and on the destination,
\* the stream load, the transform, the final commit.  The other statements
\* fail only by their input or in an aborted transaction.
FaultPoints == {"connect", "schema", "loading", "createdest", "insert", "commit2"}
FaultChoicesAt(point) ==
    IF faults < MaxFaults /\ point \in FaultPoints THEN {FALSE, TRUE} ELSE {FALSE}

\* cursor.execute / copy_expert that succeeds: it opens a transaction when
\* none is open and changes the working database
Executed(st, db) == [st EXCEPT !.txn = "intrans", !.working = db]
\* cursor.execute / copy_expert that raises: the transaction is aborted and
\* the statement leaves nothing behind
ExecFailed(st) == [st EXCEPT !.txn = "aborted"]
\* a statement can run only outside an aborted transaction
CanExecute(st) == st.txn # "aborted"

\* conn.commit(): COMMIT of an aborted transaction is a ROLLBACK
Committed(st) ==
    IF st.txn = "aborted"
    THEN [st EXCEPT !.txn = "idle", !.working = st.committed]
    ELSE [st EXCEPT !.txn = "idle", !.committed = st.working]
\* conn.commit() that raises: nothing of the transaction is kept
CommitFailed(st) == [st EXCEPT !.txn = "idle", !.working = st.committed]

\* conn.close(): the open transaction is rolled back and the session's
\* temporary relation is gone
Closed(st) ==
    LET db == [st.committed EXCEPT !.temp = NoTemp] IN
    [open |-> FALSE, txn |-> "idle", committed |-> db, working |-> db]
\* psycopg2.connect: a new session on the committed database
Connected(st) ==
    LET db == [st.committed EXCEPT !.temp = NoTemp] IN
    [open |-> TRUE, txn |-> "idle", committed |-> db, working |-> db]

(***************************************************************************)
(* inject_single, lines 38-154.                                            *)
(***************************************************************************)
\* a name with a lone surrogate cannot be encoded by print (line 43)
Printable(name) == \A i \in DOMAIN name : name[i] \notin Surrogates

\* the frame of a call inject_single(csv_path, table_name, schema_name, conn)
Enter(f, sch, t, given) ==
    [IdleSingle EXCEPT !.pc = "validating", !.csv_path = f,
                       !.schema_name = sch, !.table_name = t,
                       !.conn_arg = given]
Snapshot == [store |-> store, ops |-> ops, tmp_file |-> tmp_file]

TopLevelIdle ==
    /\ single.pc \in {"idle", "returned"}
    /\ multi.pc \in {"idle", "returned"}
    /\ calls < MaxCalls

\* a caller invokes inject_single (lines 239 and 38)
CallSingle(f, sch, t) ==
    /\ TopLevelIdle
    /\ calls' = calls + 1
    /\ ops' = 0
    /\ single' = Enter(f, sch, t, caller_conn)
    /\ multi' = IdleMulti
    /\ pre' = [Snapshot EXCEPT !.ops = 0]
    /\ mid' = store.committed
    /\ invoked' = << >>
    /\ UNCHANGED <<caller_conn, chunk_size, faults, store, tmp_file, last_ok>>

\* lines 39-51 without the existence check of lines 48-51
ValidateNoCheck ==
    /\ single.pc = "validating"
    /\ single' = IF ~Printable(Files[single.csv_path].name)
                 THEN [single EXCEPT !.pc = "except"]
                 ELSE [single EXCEPT !.pc = "acquire"]
    /\ UNCHANGED <<caller_conn, chunk_size, calls, faults, store, tmp_file,
                   ops, multi, pre, mid, last_ok, invoked>>
\* lines 39-51: the prints and the existence check
Validate ==
    /\ single.pc = "validating"
    /\ LET file == Files[single.csv_path] IN
       single' = IF ~Printable(file.name)
                 THEN [single EXCEPT !.pc = "except"]
                 ELSE IF ~file.exists
                 THEN [single EXCEPT !.pc = "returned", !.result = "False"]
                 ELSE [single EXCEPT !.pc = "acquire"]
    /\ UNCHANGED <<caller_conn, chunk_size, calls, faults, store, tmp_file,
                   ops, multi, pre, mid, last_ok, invoked>>

\* lines 53-60: use the connection given, or connect
Acquire ==
    /\ single.pc = "acquire"
    /\ \/ /\ single.conn_arg
          /\ single' = [single EXCEPT !.pc = "schema", !.conn_provided = "True"]
          /\ UNCHANGED <<store, ops, faults>>
       \/ /\ ~single.conn_arg
          /\ \E fault \in FaultChoicesAt("connect") :
               /\ faults' = faults + (IF fault THEN 1 ELSE 0)
               /\ ops' = ops + 1
               /\ store' = IF fault THEN store ELSE Connected(store)
               /\ single' = IF fault
                            THEN [single EXCEPT !.pc = "returned",
                                                !.conn_provided = "False",
                                                !.result = "False"]
                            ELSE [single EXCEPT !.pc = "schema",
                                                !.conn_provided = "False"]
    /\ UNCHANGED <<caller_conn, chunk_size, calls, tmp_file, multi, pre, mid,
                   last_ok, invoked>>

\* cursor.execute of a statement: it raises when the transaction is aborted,
\* when the statement is not `valid`, or when the store fails it
Execute(valid, db, nextpc) ==
    \E fault \in FaultChoicesAt(single.pc) :
        LET ok == CanExecute(store) /\ valid /\ ~fault IN
        /\ fault => (CanExecute(store) /\ valid)
        /\ faults' = faults + (IF fault THEN 1 ELSE 0)
        /\ ops' = ops + 1
        /\ store' = IF ok THEN Executed(store, db) ELSE ExecFailed(store)
        /\ single' = [single EXCEPT !.pc = IF ok THEN nextpc ELSE "except"]

\* line 63: CREATE SCHEMA IF NOT EXISTS
CreateSchemaDb(db, sch) == [db EXCEPT !.schemas = @ \cup {sch}]
EnsureSchema ==
    /\ single.pc = "schema"
    /\ Execute(TRUE, CreateSchemaDb(store.working, single.schema_name), "commit1")
    /\ UNCHANGED <<caller_conn, chunk_size, calls, tmp_file, multi, pre, mid,
                   last_ok, invoked>>

\* line 64: conn.commit()
CommitSchema ==
    /\ single.pc = "commit1"
    /\ \E fault \in FaultChoicesAt(single.pc) :
         /\ faults' = faults + (IF fault THEN 1 ELSE 0)
         /\ store' = IF fault THEN CommitFailed(store) ELSE Committed(store)
         /\ single' = [single EXCEPT !.pc = IF fault THEN "except" ELSE "header"]
    /\ ops' = ops + 1
    /\ mid' = store'.committed
    /\ UNCHANGED <<caller_conn, chunk_size, calls, tmp_file, multi, pre, last_ok, invoked>>

\* lines 66-76: read the header row, clean the column names
AnalyzeHeader ==
    /\ single.pc = "header"
    /\ LET file == Files[single.csv_path] IN
       single' = IF Len(file.header) = 0
                 THEN [single EXCEPT !.pc = "except"]
                 ELSE [single EXCEPT !.pc = "droptemp",
                                     !.clean_headers = CleanHeaders(file.header)]
    /\ UNCHANGED <<caller_conn, chunk_size, calls, faults, store, tmp_file,
                   ops, multi, pre, mid, last_ok, invoked>>

\* line 79: DROP TABLE IF EXISTS csv_temp
DropTempDb(db) == [db EXCEPT !.temp = NoTemp]
\* lines 79-84 skipped when csv_temp exists: the relation is used again
DropTempReuse ==
    /\ single.pc = "droptemp"
    /\ IF store.working.temp.exists /\ CanExecute(store)
       THEN /\ single' = [single EXCEPT !.pc = "count"]
            /\ UNCHANGED <<store, ops, faults>>
       ELSE Execute(TRUE, DropTempDb(store.working), "createtemp")
    /\ UNCHANGED <<caller_conn, chunk_size, calls, tmp_file, multi, pre, mid,
                   last_ok, invoked>>
\* line 79 dropping the destination along with csv_temp
DropTempAndDest ==
    /\ single.pc = "droptemp"
    /\ Execute(TRUE,
               [DropTempDb(store.working) EXCEPT
                   !.tables = Without(@, RelKey(single.schema_name,
                                                single.table_name))],
               "createtemp")
    /\ UNCHANGED <<caller_conn, chunk_size, calls, tmp_file, multi, pre, mid,
                   last_ok, invoked>>
DropTemp ==
    /\ single.pc = "droptemp"
    /\ Execute(TRUE, DropTempDb(store.working), "createtemp")
    /\ UNCHANGED <<caller_conn, chunk_size, calls, tmp_file, multi, pre, mid,
                   last_ok, invoked>>

\* lines 82-84: CREATE TEMP TABLE csv_temp ("h" TEXT, ...): two columns of
\* one name, or a column of no name, are an error
ValidColumns(cols) == NoDuplicates(cols) /\ \A i \in DOMAIN cols : Len(cols[i]) > 0
CreateTempDb(db, cols) ==
    [db EXCEPT !.temp = [cols |-> cols, rows |-> << >>, exists |-> TRUE]]
CreateTemp ==
    /\ single.pc = "createtemp"
    /\ Execute(ValidColumns(single.clean_headers) /\ ~store.working.temp.exists,
               CreateTempDb(store.working, single.clean_headers), "count")
    /\ UNCHANGED <<caller_conn, chunk_size, calls, tmp_file, multi, pre, mid,
                   last_ok, invoked>>

\* lines 86-90 without the "- 1" for the header row
CountRowsWithHeader ==
    /\ single.pc = "count"
    /\ single' = [single EXCEPT !.pc = "loading", !.pbar = 0,
                     !.total_rows = LineCount(Files[single.csv_path])]
    /\ UNCHANGED <<caller_conn, chunk_size, calls, faults, store, tmp_file,
                   ops, multi, pre, mid, last_ok, invoked>>
\* lines 86-90: the progress bar's total
CountRows ==
    /\ single.pc = "count"
    /\ single' = [single EXCEPT !.pc = "loading", !.pbar = 0,
                     !.total_rows = LineCount(Files[single.csv_path]) - 1]
    /\ UNCHANGED <<caller_conn, chunk_size, calls, faults, store, tmp_file,
                   ops, multi, pre, mid, last_ok, invoked>>

\* lines 101-106 with to_csv(header=False): next(f) drops the chunk's first row
StagedRowsSkipFirst(rows, ncols) ==
    CopyRows([i \in 1..(Len(rows) - 1) |-> CsvLine(ParseRow(rows[i + 1], ncols))])
\* lines 95-106: what COPY appends for the rows of one chunk
StagedRows(rows, ncols) ==
    CopyRows([i \in DOMAIN rows |-> CsvLine(ParseRow(rows[i], ncols))])
CopyDb(db, rows) == [db EXCEPT !.temp.rows = @ \o rows]

\* lines 93-109: one turn of the loop: read a chunk, write tmp_chunk.csv,
\* COPY it into csv_temp, advance the progress bar
LoadChunk ==
    /\ single.pc = "loading"
    /\ LET file == Files[single.csv_path]
           ncols == Len(single.clean_headers)
           rows == ChunkRows(file.rows, single.done, chunk_size)
       IN
       /\ HasChunk(Len(file.rows), single.done, single.chunks)
       /\ \/ /\ \E i \in DOMAIN rows : TooLong(rows[i], ncols)
             /\ single' = [single EXCEPT !.pc = "except"]
             /\ UNCHANGED <<store, tmp_file, ops, faults>>
          \/ /\ \A i \in DOMAIN rows : ~TooLong(rows[i], ncols)
             /\ tmp_file' = TRUE
             /\ \E fault \in FaultChoicesAt(single.pc) :
                  LET ok == CanExecute(store) /\ store.working.temp.exists /\ ~fault IN
                  /\ fault => CanExecute(store)
                  /\ faults' = faults + (IF fault THEN 1 ELSE 0)
                  /\ ops' = ops + 1
                  /\ store' = IF ok
                              THEN Executed(store, CopyDb(store.working,
                                                          StagedRows(rows, ncols)))
                              ELSE ExecFailed(store)
                  /\ single' = IF ok
                               THEN [single EXCEPT
                                       !.done = ChunkEnd(Len(file.rows), single.done,
                                                         chunk_size),
                                       !.chunks = @ + 1,
                                       !.pbar = @ + Len(rows)]
                               ELSE [single EXCEPT !.pc = "except"]
    /\ UNCHANGED <<caller_conn, chunk_size, calls, multi, pre, mid, last_ok, invoked>>

\* lines 93 and 111-113 followed by a conn.commit() of the staged rows
FinishLoadCommit ==
    /\ single.pc = "loading"
    /\ ~HasChunk(Len(Files[single.csv_path].rows), single.done, single.chunks)
    /\ tmp_file' = FALSE
    /\ store' = Committed(store)
    /\ single' = [single EXCEPT !.pc = "dropdest"]
    /\ UNCHANGED <<caller_conn, chunk_size, calls, faults, ops, multi,
                   pre, mid, last_ok, invoked>>
\* lines 93 and 111-113: the reader is exhausted; remove tmp_chunk.csv
FinishLoad ==
    /\ single.pc = "loading"
    /\ ~HasChunk(Len(Files[single.csv_path].rows), single.done, single.chunks)
    /\ tmp_file' = FALSE
    /\ single' = [single EXCEPT !.pc = "dropdest"]
    /\ UNCHANGED <<caller_conn, chunk_size, calls, faults, store, ops, multi,
                   pre, mid, last_ok, invoked>>

\* lines 116-117: DROP TABLE IF EXISTS schema.table
DropTableDb(db, key) == [db EXCEPT !.tables = Without(@, key)]
\* lines 116-117 followed by a conn.commit() of the drop
DropDestCommitted ==
    /\ single.pc = "dropdest"
    /\ \E fault \in FaultChoicesAt(single.pc) :
         LET ok == CanExecute(store) /\ ValidIdent(single.table_name) /\ ~fault IN
         /\ fault => (CanExecute(store) /\ ValidIdent(single.table_name))
         /\ faults' = faults + (IF fault THEN 1 ELSE 0)
         /\ ops' = ops + 1
         /\ store' = IF ok
                     THEN Committed(Executed(store,
                              DropTableDb(store.working,
                                  RelKey(single.schema_name, single.table_name))))
                     ELSE ExecFailed(store)
         /\ single' = [single EXCEPT !.pc = IF ok THEN "createdest" ELSE "except"]
    /\ UNCHANGED <<caller_conn, chunk_size, calls, tmp_file, multi, pre, mid,
                   last_ok, invoked>>
DropDest ==
    /\ single.pc = "dropdest"
    /\ Execute(ValidIdent(single.table_name),
               DropTableDb(store.working,
                           RelKey(single.schema_name, single.table_name)),
               "createdest")
    /\ UNCHANGED <<caller_conn, chunk_size, calls, tmp_file, multi, pre, mid,
                   last_ok, invoked>>

\* lines 118-123: CREATE TABLE schema.table (data JSON)
CreateTableDb(db, key) == [db EXCEPT !.tables = (key :> << >>) @@ @]
CreateDest ==
    /\ single.pc = "createdest"
    /\ LET key == RelKey(single.schema_name, single.table_name) IN
       Execute(/\ ValidIdent(single.table_name)
               /\ key \notin DOMAIN store.working.tables
               /\ single.schema_name \in store.working.schemas,
               CreateTableDb(store.working, key), "insert")
    /\ UNCHANGED <<caller_conn, chunk_size, calls, tmp_file, multi, pre, mid,
                   last_ok, invoked>>

\* lines 125-133: INSERT INTO schema.table SELECT row_to_json(t) FROM csv_temp
InsertDb(db, key) == [db EXCEPT !.tables[key] = @ \o RowToJson(db.temp)]
InsertJson ==
    /\ single.pc = "insert"
    /\ LET key == RelKey(single.schema_name, single.table_name) IN
       Execute(key \in DOMAIN store.working.tables /\ store.working.temp.exists,
               InsertDb(store.working, key), "commit2")
    /\ UNCHANGED <<caller_conn, chunk_size, calls, tmp_file, multi, pre, mid,
                   last_ok, invoked>>

\* lines 135-146 without the conn.commit() of line 136
CommitAllForgotten ==
    /\ single.pc = "commit2"
    /\ store' = IF single.conn_provided = "False" THEN Closed(store) ELSE store
    /\ ops' = ops + (IF single.conn_provided = "False" THEN 1 ELSE 0)
    /\ single' = [single EXCEPT !.pc = "returned", !.result = "True"]
    /\ last_ok' = (RelKey(single.schema_name, single.table_name)
                      :> single.csv_path) @@ last_ok
    /\ UNCHANGED <<caller_conn, chunk_size, calls, faults, tmp_file, multi,
                   pre, mid, invoked>>
\* lines 135-146: commit, close what was opened here, return True
CommitAll ==
    /\ single.pc = "commit2"
    /\ \E fault \in FaultChoicesAt(single.pc) :
         LET own == single.conn_provided = "False"
             st == Committed(store)
         IN
         /\ faults' = faults + (IF fault THEN 1 ELSE 0)
         /\ store' = IF fault THEN CommitFailed(store)
                     ELSE IF own THEN Closed(st) ELSE st
         /\ ops' = ops + (IF ~fault /\ own THEN 2 ELSE 1)
         /\ single' = IF fault THEN [single EXCEPT !.pc = "except"]
                      ELSE [single EXCEPT !.pc = "returned", !.result = "True"]
         /\ last_ok' = IF fault THEN last_ok
                       ELSE (RelKey(single.schema_name, single.table_name)
                                :> single.csv_path) @@ last_ok
    /\ UNCHANGED <<caller_conn, chunk_size, calls, tmp_file, multi, pre, mid, invoked>>

\* lines 148-154: the handler.  It reads conn_provided, which lines 40-51 have
\* not bound yet: there the handler itself raises UnboundLocalError.
Except ==
    /\ single.pc = "except"
    /\ \/ /\ single.conn_provided = "unbound"
          /\ single' = [single EXCEPT !.pc = "returned", !.result = "raised"]
          /\ UNCHANGED <<store, ops>>
       \/ /\ single.conn_provided = "False"
          /\ store' = Closed(store)
          /\ ops' = ops + 1
          /\ single' = [single EXCEPT !.pc = "returned", !.result = "False"]
       \/ /\ single.conn_provided = "True"
          /\ single' = [single EXCEPT !.pc = "returned", !.result = "False"]
          /\ UNCHANGED <<store, ops>>
    /\ UNCHANGED <<caller_conn, chunk_size, calls, faults, tmp_file, multi,
                   pre, mid, last_ok, invoked>>

(***************************************************************************)
(* inject_multiple, lines 157-211.                                         *)
(***************************************************************************)
\* line 164: the entries of the directory that end in .csv, in listing order
CsvFiles(d) == SelectSeq(Dirs[d].entries, LAMBDA id : EndsWithCsv(Files[id].name))

\* lines 192-198: the table name made from a file name
TableNameOf(name, use_prefix) ==
    CleanTableName((IF use_prefix THEN table_prefix ELSE << >>)
                   \o LowerStr(SplitextRoot(name)))

\* a caller invokes inject_multiple (lines 256 and 157)
CallMultiple(d, sch, prefix) ==
    /\ TopLevelIdle
    /\ calls' = calls + 1
    /\ ops' = 0
    /\ multi' = [IdleMulti EXCEPT !.pc = "start", !.directory = d,
                                  !.schema_name = sch, !.use_prefix = prefix]
    /\ single' = IdleSingle
    /\ pre' = [Snapshot EXCEPT !.ops = 0]
    /\ mid' = store.committed
    /\ invoked' = << >>
    /\ UNCHANGED <<caller_conn, chunk_size, faults, store, tmp_file, last_ok>>

\* lines 158-185 without the return of lines 165-167 for an empty list
MultiStartNoListCheck ==
    /\ multi.pc = "start"
    /\ LET files == CsvFiles(multi.directory) IN
       \/ /\ ~Dirs[multi.directory].isdir
          /\ multi' = [multi EXCEPT !.pc = "returned", !.result = "False"]
          /\ UNCHANGED <<store, ops, faults>>
       \/ /\ Dirs[multi.directory].isdir
          /\ caller_conn
          /\ multi' = [multi EXCEPT !.pc = "loop", !.csv_files = files,
                                    !.conn_provided = "True"]
          /\ UNCHANGED <<store, ops, faults>>
       \/ /\ Dirs[multi.directory].isdir
          /\ ~caller_conn
          /\ \E fault \in FaultChoicesAt("connect") :
               /\ faults' = faults + (IF fault THEN 1 ELSE 0)
               /\ ops' = ops + 1
               /\ store' = IF fault THEN store ELSE Connected(store)
               /\ multi' = IF fault
                           THEN [multi EXCEPT !.pc = "returned", !.csv_files = files,
                                              !.conn_provided = "False",
                                              !.result = "False"]
                           ELSE [multi EXCEPT !.pc = "loop", !.csv_files = files,
                                              !.conn_provided = "False"]
    /\ UNCHANGED <<caller_conn, chunk_size, calls, tmp_file, single, pre, mid,
                   last_ok, invoked>>
\* lines 158-185: check the directory, list the files, get the connection
MultiStart ==
    /\ multi.pc = "start"
    /\ LET files == CsvFiles(multi.directory) IN
       \/ /\ ~Dirs[multi.directory].isdir \/ Len(files) = 0
          /\ multi' = [multi EXCEPT !.pc = "returned", !.result = "False"]
          /\ UNCHANGED <<store, ops, faults>>
       \/ /\ Dirs[multi.directory].isdir /\ Len(files) > 0
          /\ caller_conn
          /\ multi' = [multi EXCEPT !.pc = "loop", !.csv_files = files,
                                    !.conn_provided = "True"]
          /\ UNCHANGED <<store, ops, faults>>
       \/ /\ Dirs[multi.directory].isdir /\ Len(files) > 0
          /\ ~caller_conn
          /\ \E fault \in FaultChoicesAt("connect") :
               /\ faults' = faults + (IF fault THEN 1 ELSE 0)
               /\ ops' = ops + 1
               /\ store' = IF fault THEN store ELSE Connected(store)
               /\ multi' = IF fault
                           THEN [multi EXCEPT !.pc = "returned", !.csv_files = files,
                                              !.conn_provided = "False",
                                              !.result = "False"]
                           ELSE [multi EXCEPT !.pc = "loop", !.csv_files = files,
                                              !.conn_provided = "False"]
    /\ UNCHANGED <<caller_conn, chunk_size, calls, tmp_file, single, pre, mid,
                   last_ok, invoked>>

\* lines 189-201: the next file: make its table name, call inject_single
MultiCall ==
    /\ multi.pc = "loop"
    /\ multi.idx <= Len(multi.csv_files)
    /\ LET id == multi.csv_files[multi.idx] IN
       single' = Enter(id, multi.schema_name,
                       TableNameOf(Files[id].name, multi.use_prefix), TRUE)
    /\ multi' = [multi EXCEPT !.pc = "called", !.attempts = @ + 1]
    /\ pre' = Snapshot
    /\ mid' = store.committed
    /\ invoked' = Append(invoked, [file |-> multi.csv_files[multi.idx],
                                   result |-> "none"])
    /\ UNCHANGED <<caller_conn, chunk_size, calls, faults, store, tmp_file,
                   ops, last_ok>>

\* lines 201-204: inject_single is back: count a success, go on; an
\* exception that inject_single let out ends inject_multiple at once
MultiResult ==
    /\ multi.pc = "called"
    /\ single.pc = "returned"
    /\ multi' = IF single.result = "raised"
                THEN [multi EXCEPT !.pc = "returned", !.result = "raised"]
                ELSE [multi EXCEPT !.pc = "loop", !.idx = @ + 1,
                         !.success_count =
                             @ + (IF single.result = "True" THEN 1 ELSE 0)]
    /\ invoked' = [invoked EXCEPT ![Len(invoked)].result = single.result]
    /\ UNCHANGED <<caller_conn, chunk_size, calls, faults, store, tmp_file,
                   ops, single, pre, mid, last_ok>>

\* lines 206-211 returning success_count == len(csv_files)
MultiFinishAllOrNothing ==
    /\ multi.pc = "loop"
    /\ multi.idx > Len(multi.csv_files)
    /\ multi' = [multi EXCEPT !.pc = "returned",
                    !.result = IF multi.success_count = Len(multi.csv_files)
                               THEN "True" ELSE "False"]
    /\ store' = IF multi.conn_provided = "False" THEN Closed(store) ELSE store
    /\ ops' = ops + (IF multi.conn_provided = "False" THEN 1 ELSE 0)
    /\ UNCHANGED <<caller_conn, chunk_size, calls, faults, tmp_file, single,
                   pre, mid, last_ok, invoked>>
\* lines 206-211: close what was opened here, report, return
MultiFinish ==
    /\ multi.pc = "loop"
    /\ multi.idx > Len(multi.csv_files)
    /\ multi' = [multi EXCEPT !.pc = "returned",
                    !.result = IF multi.success_count > 0 THEN "True" ELSE "False"]
    /\ store' = IF multi.conn_provided = "False" THEN Closed(store) ELSE store
    /\ ops' = ops + (IF multi.conn_provided = "False" THEN 1 ELSE 0)
    /\ UNCHANGED <<caller_conn, chunk_size, calls, faults, tmp_file, single,
                   pre, mid, last_ok, invoked>>

(***************************************************************************)
(* The specification.                                                      *)
(***************************************************************************)
Next ==
    \/ \E f \in SingleInputs, sch \in SchemaNames, t \in TableNames :
          CallSingle(f, sch, t)
    \/ Validate
    \/ Acquire
    \/ EnsureSchema
    \/ CommitSchema
    \/ AnalyzeHeader
    \/ DropTemp
    \/ CreateTemp
    \/ CountRows
    \/ LoadChunk
    \/ FinishLoad
    \/ DropDest
    \/ CreateDest
    \/ InsertJson
    \/ CommitAll
    \/ Except
    \/ \E b \in BatchInputs, sch \in SchemaNames : CallMultiple(b[1], sch, b[2])
    \/ MultiStart
    \/ MultiCall
    \/ MultiResult
    \/ MultiFinish

Spec == Init /\ [][Next]_vars

(***************************************************************************)
(* What the claims speak of.                                               *)
(***************************************************************************)
\* the run of inject_single that has just returned to its caller
JustReturned == single.pc = "returned" /\ multi.pc \in {"idle", "called"}
Succeeded == JustReturned /\ single.result = "True"
DestKey == RelKey(single.schema_name, single.table_name)

\* a sanitized header as section 4.1 of the specification words it: every
\* character outside letters, digits, underscore and the extended script
\* becomes "_", and the result is lower-cased
PermittedChars ==
    Range(Upper) \cup Range(Lower) \cup Digits \cup {"_"} \cup Hangul \cup OtherLetters
Permitted(c) == c \in PermittedChars
Sanitized(h) == [i \in DOMAIN h |-> ToLower(IF Permitted(h[i]) THEN h[i] ELSE "_")]

\* a cell as the store keeps it, and the document of one source row
Kept(row, j, ncols) ==
    IF j > Len(row) \/ row[j] \in NaValues
    THEN (IF ncols = 1 THEN "" ELSE NULL)
    ELSE row[j]
KeptRow(row, ncols) == [j \in 1..ncols |-> Kept(row, j, ncols)]
Document(keys, row) == [j \in DOMAIN keys |-> <<keys[j], Kept(row, j, Len(keys))>>]
Documents(file) ==
    LET keys == [j \in DOMAIN file.header |-> Sanitized(file.header[j])] IN
    [i \in DOMAIN file.rows |-> Document(keys, file.rows[i])]

\* a file that inject_single can ingest into the table `t`
Ingestible(file, t) ==
    /\ file.exists
    /\ Printable(file.name)
    /\ Len(file.header) > 0
    /\ \A i, j \in DOMAIN file.header :
          Sanitized(file.header[i]) = Sanitized(file.header[j]) => i = j
    /\ \A i \in DOMAIN file.rows : Len(file.rows[i]) <= Len(file.header)
    /\ Len(t) > 0 /\ t[1] \notin Digits

\* C1: a call of inject_single on a path that does not exist returns False
\* and performs no store operation: the count of store operations and the
\* whole session (open or not, transaction status, committed and working
\* database) are as the call found them.
C1_MissingPathTouchesNothing ==
    (JustReturned /\ ~Files[single.csv_path].exists) =>
        /\ single.result = "False"
        /\ ops = pre.ops
        /\ store = pre.store
\* a missing path handed over on a connection whose transaction is open
C1_Witness ==
    /\ JustReturned /\ ~Files[single.csv_path].exists
    /\ single.result = "False"
    /\ store.open /\ store.txn = "intrans"

\* C2 (as claimed): when inject_multiple returns and the store failed no
\* operation on its own, the success count is the number of files of the
\* directory that can be ingested, whatever the other files did.
C2_EveryValidFileSucceeds ==
    (multi.pc = "returned" /\ multi.result \in {"True", "False"}
        /\ Len(multi.csv_files) > 0 /\ faults = 0) =>
        multi.success_count =
            Cardinality({i \in DOMAIN multi.csv_files :
                Ingestible(Files[multi.csv_files[i]],
                           TableNameOf(Files[multi.csv_files[i]].name,
                                       multi.use_prefix))})

\* C3: as long as a run of inject_single has not returned True, and so when
\* it returns False, the committed relations are the ones the run found: a
\* failed run commits no drop, no empty and no partly filled destination,
\* and neither does a later run that fails on the same connection.
C3_FailedRunCommitsNoRelation ==
    single.result # "True" => store.committed.tables = pre.store.committed.tables
\* a run that failed after it dropped a committed destination
C3_Witness ==
    /\ JustReturned /\ single.result = "False"
    /\ DestKey \in DOMAIN store.committed.tables
    /\ DestKey \notin DOMAIN store.working.tables

\* C4 (as claimed): nothing that a run writes is committed before its
\* Committing step: while the run is under way the committed schemas and
\* relations are those it found.
RunUnderWay ==
    single.pc \in {"validating", "acquire", "schema", "commit1", "header",
                   "droptemp", "createtemp", "count", "loading", "dropdest",
                   "createdest", "insert", "commit2", "except"}
C4_NothingCommittedBeforeCommitting ==
    RunUnderWay =>
        /\ store.committed.schemas = pre.store.committed.schemas
        /\ store.committed.tables = pre.store.committed.tables
\* C4 (amended): the schema is committed by line 64; from there to the
\* commit of line 136 nothing is committed, and that commit makes durable,
\* together, the staging relation and the destination of this run and
\* nothing else.
AfterSchemaCommit ==
    single.pc \in {"header", "droptemp", "createtemp", "count", "loading",
                   "dropdest", "createdest", "insert", "commit2"}
C4_StagingAndDestinationCommitTogether ==
    /\ AfterSchemaCommit => store.committed = mid
    /\ Succeeded =>
        /\ store.committed.schemas = mid.schemas
        /\ DOMAIN store.committed.tables = DOMAIN mid.tables \cup {DestKey}
        /\ \A k \in DOMAIN mid.tables \ {DestKey} :
              store.committed.tables[k] = mid.tables[k]
        /\ single.conn_provided = "True" =>
              /\ store.committed.temp.exists
              /\ store.committed.temp.cols = single.clean_headers
              /\ store.committed.tables[DestKey] = RowToJson(store.committed.temp)
\* a run on the caller's connection that created its schema and committed
\* staged rows and destination
C4_Witness ==
    /\ Succeeded /\ single.conn_provided = "True"
    /\ single.schema_name \notin pre.store.committed.schemas
    /\ Len(store.committed.temp.rows) > 1
    /\ DestKey \notin DOMAIN mid.tables

\* C5: every relation that successful runs wrote holds exactly the documents
\* of the file of the last of these runs, one per data row in file order,
\* and nothing of the files ingested into it before.
C5_LastFileReplacesDestination ==
    \A key \in DOMAIN last_ok :
        /\ key \in DOMAIN store.committed.tables
        /\ store.committed.tables[key] = Documents(Files[last_ok[key]])
\* a run that replaced a destination holding another file's documents
C5_Witness ==
    /\ Succeeded
    /\ DestKey \in DOMAIN pre.store.committed.tables
    /\ Len(pre.store.committed.tables[DestKey]) > 0
    /\ pre.store.committed.tables[DestKey] # store.committed.tables[DestKey]

\* C6: after a successful run the destination has one row per data row of
\* the file, and the keys of every row are the sanitized headers of the file.
KeysOf(doc) == {doc[j][1] : j \in DOMAIN doc}
C6_RowCountAndKeys ==
    Succeeded =>
        LET file == Files[single.csv_path]
            dest == store.committed.tables[DestKey]
        IN
        /\ Len(dest) = Len(file.rows)
        /\ \A i \in DOMAIN dest :
              KeysOf(dest[i]) = {Sanitized(file.header[j]) : j \in DOMAIN file.header}
\* a successful run of a file with rows whose headers sanitizing changes
C6_Witness ==
    /\ Succeeded
    /\ Len(store.committed.tables[DestKey]) = 3
    /\ \E j \in DOMAIN Files[single.csv_path].header :
          Sanitized(Files[single.csv_path].header[j]) # Files[single.csv_path].header[j]

\* C7: when Staging is over, whatever the chunk size, csv_temp holds every
\* data row of the file once and in file order, read in ceil(N / chunk_size)
\* chunks (one chunk for N = 0); and the destination of a successful run is
\* the same for every chunk size.
Staged ==
    single.pc \in {"dropdest", "createdest", "insert", "commit2"}
C7_ChunksPartitionRows ==
    LET file == Files[single.csv_path]
        n == Len(file.rows)
    IN
    /\ Staged =>
        /\ store.working.temp.rows =
              [i \in 1..n |-> KeptRow(file.rows[i], Len(file.header))]
        /\ single.done = n
        /\ single.chunks = IF n = 0 THEN 1 ELSE (n + chunk_size - 1) \div chunk_size
    /\ Succeeded => store.committed.tables[DestKey] = Documents(file)
\* three rows staged in chunks of two: a full chunk, then a short one
C7_Witness ==
    /\ Staged
    /\ chunk_size = 2 /\ single.chunks = 2
    /\ Len(store.working.temp.rows) = 3

\* C8 (as claimed): whenever inject_single has returned, tmp_chunk.csv does
\* not exist.
C8_TmpFileRemovedOnReturn ==
    single.pc = "returned" => ~tmp_file

\* C9 (as claimed): when inject_single or inject_multiple is over, a
\* connection that the caller supplied is open and a connection that the
\* function opened itself is closed.
C9_ConnectionOwnership ==
    /\ JustReturned => store.open = single.conn_arg
    /\ multi.pc = "returned" => store.open = caller_conn

\* C10 (as claimed): inject_single always returns True or False; it never
\* ends by raising.
C10_NoExceptionEscapes ==
    single.pc = "returned" => single.result \in {"True", "False"}

\* C11 (as claimed): the calls of inject_single that inject_multiple makes
\* are, at every moment, the first discovered files in discovery order, each
\* once; and when inject_multiple is over after it entered its loop, every
\* discovered file has been called and the tally is the number of calls
\* that returned True.
InvokedFiles == [i \in DOMAIN invoked |-> invoked[i].file]
ReturnedTrue == {i \in DOMAIN invoked : invoked[i].result = "True"}
C11_EveryFileInvokedOnce ==
    /\ multi.pc \in {"loop", "called", "returned"} =>
          /\ Len(invoked) <= Len(multi.csv_files)
          /\ InvokedFiles = SubSeq(multi.csv_files, 1, Len(invoked))
    /\ (multi.pc = "returned" /\ Len(invoked) > 0) =>
          /\ InvokedFiles = multi.csv_files
          /\ multi.success_count = Cardinality(ReturnedTrue)

\* C12: when inject_multiple returns a value, it is True exactly when at
\* least one of the batch's calls of inject_single returned True, and False
\* when every call failed or none was made.
C12_TrueIffSomeFileSucceeded ==
    (multi.pc = "returned" /\ multi.result \in {"True", "False"}) =>
        (multi.result = "True" <=> ReturnedTrue # {})
\* a batch that returned True although one of its files failed
C12_Witness ==
    /\ multi.pc = "returned" /\ multi.result = "True"
    /\ \E i \in DOMAIN invoked : invoked[i].result = "False"
    /\ Len(invoked) = Len(multi.csv_files)

\* C13: a call of inject_multiple on a path that is no directory, or on a
\* directory without an entry ending in .csv (in any letter case), never
\* enters the loop; it returns False with no call of inject_single and no
\* store operation: the session is as the call found it, open or not.
NothingToIngest ==
    \/ ~Dirs[multi.directory].isdir
    \/ \A i \in DOMAIN Dirs[multi.directory].entries :
          ~EndsWithCsv(Files[Dirs[multi.directory].entries[i]].name)
C13_NoDirectoryNoConnection ==
    /\ multi.pc \in {"loop", "called"} => ~NothingToIngest
    /\ (multi.pc = "returned" /\ NothingToIngest) =>
          /\ multi.result = "False"
          /\ invoked = << >>
          /\ ops = 0
          /\ store = pre.store
\* a directory that exists and lists only other files, no connection given
C13_Witness ==
    /\ multi.pc = "returned" /\ multi.result = "False"
    /\ Dirs[multi.directory].isdir /\ Len(Dirs[multi.directory].entries) > 0
    /\ NothingToIngest
    /\ ~caller_conn /\ ~store.open

\* the phase of section 4.3 that a frame of inject_single is in
PhaseOf(frame) ==
    CASE frame.pc = "idle" -> "Idle"
      [] frame.pc = "validating" -> "Validating"
      [] frame.pc \in {"acquire", "schema", "commit1", "header", "droptemp",
                       "createtemp"} -> "SchemaPreparing"
      [] frame.pc \in {"count", "loading"} -> "Staging"
      [] frame.pc \in {"dropdest", "createdest", "insert"} -> "Materializing"
      [] frame.pc = "commit2" -> "Committing"
      [] frame.pc = "returned" /\ frame.result = "True" -> "Done"
      [] OTHER -> "Failed"
PhaseOrder ==
    <<"Validating", "SchemaPreparing", "Staging", "Materializing",
      "Committing", "Done">>
Rank(phase) ==
    IF \E i \in DOMAIN PhaseOrder : PhaseOrder[i] = phase
    THEN CHOOSE i \in DOMAIN PhaseOrder : PhaseOrder[i] = phase
    ELSE 0
\* a statement that succeeded and took the destination out of the database
DropExecuted ==
    /\ store'.txn = "intrans"
    /\ DestKey \in DOMAIN store.working.tables
    /\ DestKey \notin DOMAIN store'.working.tables
\* C14: every step of a run stays in its phase, moves to the next phase of
\* Validating, SchemaPreparing, Staging, Materializing, Committing, Done, or
\* moves to Failed; a run begins in Validating only when none is under way;
\* the destination is dropped only in Materializing, when every row of the
\* file is staged, and the step that fails a run before Materializing
\* changes no relation;
\* and a run becomes Done only by the commit of its Committing phase.
C14_PhaseStep ==
    LET p == PhaseOf(single)
        q == PhaseOf(single')
    IN
    /\ \/ q = p
       \/ q = "Idle"
       \/ q = "Validating" /\ p \in {"Idle", "Done", "Failed"}
       \/ Rank(p) > 0 /\ Rank(q) = Rank(p) + 1
       \/ q = "Failed" /\ Rank(p) \in 1..5
    /\ DropExecuted =>
          /\ p = "Materializing"
          /\ single.done = Len(Files[single.csv_path].rows)
          /\ Len(store.working.temp.rows) = Len(Files[single.csv_path].rows)
    /\ (q = "Failed" /\ Rank(p) \in 1..3) =>
          store'.working.tables = store.working.tables
    /\ (q = "Done" /\ p # "Done") =>
          /\ p = "Committing"
          /\ DestKey \in DOMAIN store'.committed.tables
          /\ store'.committed.tables[DestKey] = store.working.tables[DestKey]
C14_PhasesInOrder == [][C14_PhaseStep]_vars
\* a run that failed in Staging, after its first chunk, with the rows of an
\* earlier file still in its destination
C14_Witness ==
    /\ single.pc = "except"
    /\ single.chunks >= 1 /\ single.done < Len(Files[single.csv_path].rows)
    /\ DestKey \in DOMAIN store.working.tables
    /\ Len(store.working.tables[DestKey]) > 0

\* C15: when the Staging of a file begins, csv_temp exists, is empty and
\* has the sanitized headers of this file as its columns, in header order;
\* when Materializing begins it holds the rows of this file and no other
\* row, whatever an earlier run on the connection left in it.
StagingBegins ==
    single.pc = "count" \/ (single.pc = "loading" /\ single.chunks = 0)
SanitizedHeaders(file) == [j \in DOMAIN file.header |-> Sanitized(file.header[j])]
C15_StagingFreshPerFile ==
    LET file == Files[single.csv_path]
        temp == store.working.temp
    IN
    /\ StagingBegins =>
          /\ temp.exists
          /\ temp.rows = << >>
          /\ temp.cols = SanitizedHeaders(file)
    /\ single.pc = "dropdest" =>
          /\ temp.exists
          /\ temp.cols = SanitizedHeaders(file)
          /\ temp.rows = [i \in DOMAIN file.rows |->
                             KeptRow(file.rows[i], Len(file.header))]
\* in a batch, the Staging of a file begins after the file before it failed
\* midway and left csv_temp behind with some of its rows
C15_Witness ==
    /\ multi.pc = "called" /\ StagingBegins
    /\ Len(invoked) >= 2 /\ invoked[Len(invoked) - 1].result = "False"
    /\ pre.store.working.temp.exists
    /\ Len(pre.store.working.temp.rows) > 0
    /\ pre.store.working.temp.cols # store.working.temp.cols

DestinationOf(id) ==
    RelKey(multi.schema_name, TableNameOf(Files[id].name, multi.use_prefix))
C17_EverySucceededFileKeepsItsDestination ==
    (multi.pc = "returned" /\ multi.result \in {"True", "False"}) =>
        /\ \A i, j \in DOMAIN multi.csv_files :
              DestinationOf(multi.csv_files[i]) = DestinationOf(multi.csv_files[j])
                  => i = j
        /\ \A i \in ReturnedTrue :
              /\ DestinationOf(invoked[i].file) \in DOMAIN store.committed.tables
              /\ store.committed.tables[DestinationOf(invoked[i].file)]
                     = Documents(Files[invoked[i].file])

====
